---------------------------- MODULE Spec2Model ----------------------------
(***************************************************************************)
(* A model of src/platform_linux.cc (node's Linux platform layer):         *)
(*   - the process-title slot (SetupArgs, SetProcessTitle,                 *)
(*     GetProcessTitle), sequentially and with interleaved threads;        *)
(*   - GetMemory, the positional scanner of /proc/self/stat;               *)
(*   - GetExecutablePath;                                                  *)
(*   - GetCPUInfo;                                                         *)
(*   - GetInterfaceAddresses (the non-ANDROID branch).                     *)
(* C strings are sequences of one-character strings; a buffer holds the    *)
(* characters followed by NUL.                                             *)
(***************************************************************************)
EXTENDS Integers, Sequences, FiniteSets, TLC

VARIABLES
  \* ---- process title (lines 63-98)
  heap,           \* the malloc heap: address -> [live, bytes]
  process_title,  \* static char *process_title (line 64)
  phase,          \* "startup" until SetupArgs has run, then "running"
  last,           \* the last completed call and what it returned
  want,           \* history: the string most recently installed in the slot
  comm,           \* the kernel's task name, set by prctl(PR_SET_NAME)
  doubleFree,     \* free() was called on a buffer that is not allocated
  nset,           \* history: SetProcessTitle calls completed (2 stands for "2 or more")
  \* ---- interleaved title calls
  tpc,            \* thread -> position inside its call
  tloc,           \* thread -> its locals (loaded pointers, the argument)
  readFreed,      \* a thread read the bytes of a freed buffer
  \* ---- GetMemory (lines 101-193)
  f,              \* FILE *f: [open, data, pos], pos the next character to read
  gm_pc,          \* the statement GetMemory is at
  buf,            \* static char buf[MAXPATHLEN + 1] (line 63)
  cbuf,           \* char *cbuf, as an offset into buf
  foundExeEnd,    \* bool foundExeEnd
  itmp,           \* int itmp
  ctmp,           \* char ctmp
  page_size,      \* size_t page_size = getpagesize()
  nfield,         \* how many of a run of numeric fields have been consumed
  rss,            \* the caller's *rss
  vsize,          \* the caller's *vsize
  gm_ret,         \* GetMemory's return value
  overrun,        \* an access through cbuf fell outside buf
  rec,            \* history: how the record in the file was built
  \* ---- GetExecutablePath (lines 196-201)
  link,           \* /proc/self/exe: [fails, target]
  buffer,         \* the caller's buffer, capacity characters
  size,           \* the caller's *size
  ge_pc,          \* the statement GetExecutablePath is at
  ge_r,           \* what readlink returned
  ge_nul,         \* the index the terminating NUL was stored at
  ge_ret,         \* GetExecutablePath's return value
  capacity,       \* history: the *size the caller passed in
  \* ---- GetInterfaceAddresses (lines 333-404)
  addrs,          \* what getifaddrs yields: [fails, list]
  ent,            \* the index of the entry the loop is at
  ret,            \* Local<Object> ret: interface name -> array of objects
  ia_pc,          \* the statement GetInterfaceAddresses is at
  ia_result,      \* "none", "exception" or "mapping"
  \* ---- GetCPUInfo (lines 203-277)
  fpModel,        \* /proc/cpuinfo: [ok, lines]
  fpStat,         \* /proc/stat: [ok, lines]
  fpSpeed,        \* core index + 1 -> its cpuinfo_max_freq file: [exists, lines]
  ticks,          \* sysconf(_SC_CLK_TCK)
  numcpus,        \* int numcpus
  ci_i,           \* int i
  cpuspeed,       \* unsigned int cpuspeed
  model,          \* char model[512]
  ln,             \* the next line fgets returns from the file being read
  cpus,           \* Local<Array> *cpus
  ci_pc,          \* the statement GetCPUInfo is at
  ci_ret          \* GetCPUInfo's return value

titleVars == <<heap, process_title, phase, last, want, comm, doubleFree, nset>>
concVars == <<tpc, tloc, readFreed>>

memVars == <<f, gm_pc, buf, cbuf, foundExeEnd, itmp, ctmp, page_size, nfield,
             rss, vsize, gm_ret, overrun, rec>>

exeVars == <<link, buffer, size, ge_pc, ge_r, ge_nul, ge_ret, capacity>>
ifVars == <<addrs, ent, ret, ia_pc, ia_result>>

cpuVars == <<fpModel, fpStat, fpSpeed, ticks, numcpus, ci_i, cpuspeed, model, ln,
             cpus, ci_pc, ci_ret>>

vars == <<titleVars, concVars, memVars, exeVars, ifVars, cpuVars>>

\* ------------------------------------------------------------------ bounds
MaxAddr == 3
MaxTitleLen == 3
MaxNameLen == 2
\* The widths of int and size_t, scaled down (32 and 64 in an LP64 build), and
\* the size of buf (MAXPATHLEN + 1 in the source), scaled down.
IntBits == 12
SizeBits == 24
BufSize == 5
MaxCapacity == 5
MaxTarget == 6
MaxIfs == 2
MaxCores == 2

\* ------------------------------------------------------------- C strings
NUL == "NUL"
NULL == 0
EOF == -1

Min(a, b) == IF a < b THEN a ELSE b

RECURSIVE Pow2(_)
Pow2(n) == IF n = 0 THEN 1 ELSE 2 * Pow2(n - 1)
IntMod == Pow2(IntBits)
SizeMod == Pow2(SizeBits)
\* What a result variable holds before the code assigns it: no int and no
\* size_t has this value.
Unset == 0 - SizeMod

RECURSIVE SeqsUpTo(_, _)
SeqsUpTo(S, n) ==
  IF n = 0 THEN {<<>>}
  ELSE LET shorter == SeqsUpTo(S, n - 1)
       IN shorter \cup {Append(s, c) : s \in {t \in shorter : Len(t) = n - 1}, c \in S}

TitleChars == {"a", "b"}
Titles == SeqsUpTo(TitleChars, MaxTitleLen)

\* strlen: the number of bytes before the first NUL.
RECURSIVE strlenFrom(_, _)
strlenFrom(bytes, i) ==
  IF i > Len(bytes) \/ bytes[i] = NUL THEN i - 1 ELSE strlenFrom(bytes, i + 1)

strlen(bytes) == strlenFrom(bytes, 1)

\* The characters of the C string a buffer holds.
CStr(bytes) == SubSeq(bytes, 1, strlen(bytes))

\* ------------------------------------------------------------------ heap
Addr == 1..MaxAddr
EmptyHeap == [a \in Addr |-> [live |-> FALSE, bytes |-> <<>>]]
FreeAddrs(h) == {a \in Addr : ~h[a].live}
Live(h) == {a \in Addr : h[a].live}

\* free(p): the buffer is returned to the allocator.
Free(h, p) == [h EXCEPT ![p] = [live |-> FALSE, bytes |-> <<>>]]

\* strdup(s) returning address a: a fresh buffer holding s and its NUL.
StrdupAt(h, a, s) == [h EXCEPT ![a] = [live |-> TRUE, bytes |-> Append(s, NUL)]]

\* prctl(PR_SET_NAME, p): the kernel copies at most 15 characters of the name.
Prctl(s) == SubSeq(s, 1, Min(Len(s), 15))

\* -------------------------------------------------- sequential title calls
InitTitleIdle ==
  /\ heap = EmptyHeap
  /\ process_title = NULL
  /\ phase = "off"
  /\ last = [op |-> "none"]
  /\ want = <<>>
  /\ comm = <<>>
  /\ doubleFree = FALSE
  /\ nset = 0

InitConcIdle ==
  /\ tpc = <<>>
  /\ tloc = <<>>
  /\ readFreed = FALSE

InitMemIdle ==
  /\ f = [open |-> FALSE, data |-> <<>>, pos |-> 1]
  /\ gm_pc = "off"
  /\ buf = <<>>
  /\ cbuf = 0
  /\ foundExeEnd = FALSE
  /\ itmp = 0
  /\ ctmp = NUL
  /\ page_size = 0
  /\ nfield = 0
  /\ rss = Unset
  /\ vsize = Unset
  /\ gm_ret = Unset
  /\ overrun = FALSE
  /\ rec = [name |-> <<>>, vs |-> 0, rs |-> 0, kind |-> "none"]

InitExeIdle ==
  /\ link = [fails |-> TRUE, target |-> <<>>]
  /\ buffer = <<>>
  /\ size = 0
  /\ ge_pc = "off"
  /\ ge_r = 0
  /\ ge_nul = Unset
  /\ ge_ret = Unset
  /\ capacity = 0

InitIfIdle ==
  /\ addrs = [fails |-> TRUE, list |-> <<>>]
  /\ ent = 0
  /\ ret = <<>>
  /\ ia_pc = "off"
  /\ ia_result = "none"

InitCpuIdle ==
  /\ fpModel = [ok |-> FALSE, lines |-> <<>>]
  /\ fpStat = [ok |-> FALSE, lines |-> <<>>]
  /\ fpSpeed = <<>>
  /\ ticks = 0
  /\ numcpus = 0
  /\ ci_i = 0
  /\ cpuspeed = Unset
  /\ model = ""
  /\ ln = 1
  /\ cpus = <<>>
  /\ ci_pc = "off"
  /\ ci_ret = Unset

InitTitleStartup ==
  /\ heap = EmptyHeap
  /\ process_title = NULL
  /\ phase = "startup"
  /\ last = [op |-> "none"]
  /\ want = <<>>
  /\ comm = <<>>
  /\ doubleFree = FALSE
  /\ nset = 0

\* main calls SetupArgs once, before any other call of this file (the slot is
\* "created from argv[0] at startup").
CalledAtStartup == phase = "startup"

\* char** Platform::SetupArgs(int argc, char *argv[])
SetupArgs(argv0) ==
  /\ CalledAtStartup
  /\ \E a \in FreeAddrs(heap) :
       /\ heap' = StrdupAt(heap, a, argv0)
       /\ process_title' = a
  /\ phase' = "running"
  /\ last' = [op |-> "SetupArgs"]
  /\ want' = argv0
  /\ UNCHANGED <<comm, doubleFree, nset>>

\* A SetProcessTitle that keeps a title that is already set.
SetProcessTitle_keep(title) ==
  /\ phase = "running"
  /\ process_title # NULL
  /\ comm' = Prctl(CStr(heap[process_title].bytes))
  /\ last' = [op |-> "SetProcessTitle"]
  /\ want' = title
  /\ nset' = Min(nset + 1, 2)
  /\ UNCHANGED <<heap, process_title, phase, doubleFree>>

\* A SetProcessTitle that forgets to release the buffer it replaces.
SetProcessTitle_leak(title) ==
  /\ phase = "running"
  /\ \E a \in FreeAddrs(heap) :
       /\ heap' = StrdupAt(heap, a, title)
       /\ process_title' = a
  /\ comm' = Prctl(title)
  /\ last' = [op |-> "SetProcessTitle"]
  /\ want' = title
  /\ nset' = Min(nset + 1, 2)
  /\ UNCHANGED <<phase, doubleFree>>

\* void Platform::SetProcessTitle(char *title), the PR_SET_NAME branch.
SetProcessTitle(title) ==
  /\ phase = "running"
  /\ LET h1 == IF process_title # NULL THEN Free(heap, process_title) ELSE heap
         df == process_title # NULL /\ ~heap[process_title].live
     IN /\ doubleFree' = (doubleFree \/ df)
        /\ IF FreeAddrs(h1) = {}
           THEN /\ heap' = h1              \* strdup fails: NULL
                /\ process_title' = NULL
                /\ comm' = comm
           ELSE \E a \in FreeAddrs(h1) :
                  /\ heap' = StrdupAt(h1, a, title)
                  /\ process_title' = a
                  /\ comm' = Prctl(CStr(heap'[a].bytes))
  /\ last' = [op |-> "SetProcessTitle"]
  /\ want' = title
  /\ nset' = Min(nset + 1, 2)
  /\ UNCHANGED phase

\* const char* Platform::GetProcessTitle(int *len)
GetProcessTitle ==
  /\ phase = "running"
  /\ last' = IF process_title # NULL
             THEN [op |-> "GetProcessTitle", ptr |-> process_title,
                   len |-> strlen(heap[process_title].bytes)]
             ELSE [op |-> "GetProcessTitle", ptr |-> NULL, len |-> 0]
  /\ UNCHANGED <<heap, process_title, phase, want, comm, doubleFree, nset>>

notTitle == <<concVars, memVars, exeVars, ifVars, cpuVars>>

NextTitle ==
  \/ \E argv0 \in Titles : SetupArgs(argv0) /\ UNCHANGED notTitle
  \/ \E title \in Titles : SetProcessTitle(title) /\ UNCHANGED notTitle
  \/ GetProcessTitle /\ UNCHANGED notTitle

\* The process before main has called SetupArgs.
InitTitle ==
  InitTitleStartup /\ InitConcIdle /\ InitMemIdle /\ InitExeIdle /\ InitIfIdle /\ InitCpuIdle

Spec == InitTitle /\ [][NextTitle]_vars

C6_OneLiveBuffer ==
  (phase = "running" /\ nset >= 1) =>
    /\ process_title # NULL
    /\ Live(heap) = {process_title}
    /\ ~doubleFree

C6_Witness_TwoSets ==
  /\ last.op = "SetProcessTitle"
  /\ nset = 2
  /\ Live(heap) = {process_title}

\* ------------------------------------------------- interleaved title calls
\* Two threads that call SetProcessTitle and one that calls GetProcessTitle,
\* with no lock (the source takes none); each step is one load, store or
\* library call of lines 76-81 and 92-94.
Writers == {"w1", "w2"}
Readers == {"r1"}
Threads == Writers \cup Readers
ConcTitles == {<<c>> : c \in TitleChars}
NoLocals == [title |-> <<>>, p |-> NULL, tmp |-> NULL, len |-> 0]

\* The state after startup: SetupArgs has installed argv[0].
InitConc ==
  /\ \E a \in Addr, argv0 \in ConcTitles :
       /\ heap = StrdupAt(EmptyHeap, a, argv0)
       /\ process_title = a
       /\ want = argv0
  /\ phase = "running"
  /\ last = [op |-> "SetupArgs"]
  /\ comm = <<>>
  /\ doubleFree = FALSE
  /\ nset = 0
  /\ tpc = [t \in Threads |-> "idle"]
  /\ tloc = [t \in Threads |-> NoLocals]
  /\ readFreed = FALSE
  /\ InitMemIdle
  /\ InitExeIdle
  /\ InitIfIdle
  /\ InitCpuIdle

\* A pointer the thread loaded earlier may be kept in a register or loaded
\* again: the unsynchronised access lets the build do either.
Loaded(t) == {tloc[t].p, process_title}

\* line 76: if (process_title)
SetTest(t, title) ==
  /\ tpc[t] = "idle"
  /\ tloc' = [tloc EXCEPT ![t] = [NoLocals EXCEPT !.title = title, !.p = process_title]]
  /\ tpc' = [tpc EXCEPT ![t] = IF process_title # NULL THEN "s_free" ELSE "s_dup"]
  /\ UNCHANGED <<titleVars, readFreed>>

\* line 76: free(process_title)
SetFree(t) ==
  /\ tpc[t] = "s_free"
  /\ \E q \in Loaded(t) :
       IF q = NULL THEN UNCHANGED <<heap, doubleFree>>
       ELSE IF heap[q].live
            THEN heap' = Free(heap, q) /\ UNCHANGED doubleFree
            ELSE doubleFree' = TRUE /\ UNCHANGED heap
  /\ tpc' = [tpc EXCEPT ![t] = "s_dup"]
  /\ UNCHANGED <<process_title, phase, last, want, comm, nset, tloc, readFreed>>

\* line 77: strdup(title)
SetDup(t) ==
  /\ tpc[t] = "s_dup"
  /\ IF FreeAddrs(heap) = {}
     THEN /\ tloc' = [tloc EXCEPT ![t].tmp = NULL]
          /\ UNCHANGED heap
     ELSE \E a \in FreeAddrs(heap) :
            /\ heap' = StrdupAt(heap, a, tloc[t].title)
            /\ tloc' = [tloc EXCEPT ![t].tmp = a]
  /\ tpc' = [tpc EXCEPT ![t] = "s_store"]
  /\ UNCHANGED <<process_title, phase, last, want, comm, doubleFree, nset, readFreed>>

\* line 77: process_title = ...
SetStore(t) ==
  /\ tpc[t] = "s_store"
  /\ process_title' = tloc[t].tmp
  /\ want' = tloc[t].title
  /\ tloc' = [tloc EXCEPT ![t].p = tloc[t].tmp]
  /\ tpc' = [tpc EXCEPT ![t] = "s_prctl"]
  /\ UNCHANGED <<heap, phase, last, comm, doubleFree, nset, readFreed>>

\* line 81: prctl(PR_SET_NAME, process_title)
SetPrctl(t) ==
  /\ tpc[t] = "s_prctl"
  /\ \E q \in Loaded(t) :
       IF q = NULL THEN UNCHANGED <<comm, readFreed>>
       ELSE /\ comm' = Prctl(CStr(heap[q].bytes))
            /\ readFreed' = (readFreed \/ ~heap[q].live)
  /\ last' = [op |-> "SetProcessTitle"]
  /\ tpc' = [tpc EXCEPT ![t] = "idle"]
  /\ tloc' = [tloc EXCEPT ![t] = NoLocals]
  /\ UNCHANGED <<heap, process_title, phase, want, doubleFree, nset>>

\* line 92: if (process_title), and lines 96-97 when it is NULL
GetTest(t) ==
  /\ tpc[t] = "idle"
  /\ IF process_title # NULL
     THEN /\ tloc' = [tloc EXCEPT ![t] = [NoLocals EXCEPT !.p = process_title]]
          /\ tpc' = [tpc EXCEPT ![t] = "g_len"]
          /\ UNCHANGED last
     ELSE /\ last' = [op |-> "GetProcessTitle", ptr |-> NULL, len |-> 0, live |-> TRUE]
          /\ UNCHANGED <<tloc, tpc>>
  /\ UNCHANGED <<heap, process_title, phase, want, comm, doubleFree, nset, readFreed>>

\* line 93: *len = strlen(process_title)
GetLen(t) ==
  /\ tpc[t] = "g_len"
  /\ \E q \in Loaded(t) \ {NULL} :
       /\ tloc' = [tloc EXCEPT ![t].len = strlen(heap[q].bytes)]
       /\ readFreed' = (readFreed \/ ~heap[q].live)
  /\ tpc' = [tpc EXCEPT ![t] = "g_ret"]
  /\ UNCHANGED titleVars

\* line 94: return process_title
GetRet(t) ==
  /\ tpc[t] = "g_ret"
  /\ \E q \in Loaded(t) :
       last' = [op |-> "GetProcessTitle", ptr |-> q, len |-> tloc[t].len,
                live |-> (q = NULL \/ heap[q].live)]
  /\ tpc' = [tpc EXCEPT ![t] = "idle"]
  /\ tloc' = [tloc EXCEPT ![t] = NoLocals]
  /\ UNCHANGED <<heap, process_title, phase, want, comm, doubleFree, nset, readFreed>>

\* Once a freed buffer has been read or freed again the behaviour of the
\* process is undefined; the model follows it no further.
Defined == ~readFreed /\ ~doubleFree

notConc == <<memVars, exeVars, ifVars, cpuVars>>

NextConc ==
  \/ \E t \in Writers, title \in ConcTitles : Defined /\ SetTest(t, title) /\ UNCHANGED notConc
  \/ \E t \in Writers : Defined /\ SetFree(t) /\ UNCHANGED notConc
  \/ \E t \in Writers : Defined /\ SetDup(t) /\ UNCHANGED notConc
  \/ \E t \in Writers : Defined /\ SetStore(t) /\ UNCHANGED notConc
  \/ \E t \in Writers : Defined /\ SetPrctl(t) /\ UNCHANGED notConc
  \/ \E t \in Readers : Defined /\ GetTest(t) /\ UNCHANGED notConc
  \/ \E t \in Readers : Defined /\ GetLen(t) /\ UNCHANGED notConc
  \/ \E t \in Readers : Defined /\ GetRet(t) /\ UNCHANGED notConc

SpecConc == InitConc /\ [][NextConc]_vars

\* C10: when GetProcessTitle and SetProcessTitle calls interleave, no thread
\* reads a freed title buffer, the pointer GetProcessTitle returns refers to a
\* live buffer, and no buffer is freed twice.
C10_NoFreedRead ==
  /\ ~readFreed
  /\ ~doubleFree
  /\ (last.op = "GetProcessTitle" => last.live)

\* ------------------------------------------------ GetMemory (lines 101-193)

\* The int a bit pattern denotes (two's complement, IntBits wide).
AsInt(n) == LET m == n % IntMod IN IF m >= IntMod \div 2 THEN m - IntMod ELSE m
\* (size_t) i for an int i: the value modulo 2^SizeBits (sign extension).
AsSize(i) == i % SizeMod
\* (size_t) i * p, in size_t arithmetic.
MulSize(i, p) == (i * p) % SizeMod

Digits == <<"0", "1", "2", "3", "4", "5", "6", "7", "8", "9">>
IsDigit(c) == \E d \in 1..10 : Digits[d] = c
DigitVal(c) == (CHOOSE d \in 1..10 : Digits[d] = c) - 1
IsSpace(c) == c \in {" ", "\n"}

RECURSIVE ToDec(_)
ToDec(n) == IF n < 10 THEN <<Digits[n + 1]>> ELSE Append(ToDec(n \div 10), Digits[(n % 10) + 1])

\* A white-space directive of a scanf format: skip any white space.
RECURSIVE SkipSpace(_, _)
SkipSpace(data, p) ==
  IF p <= Len(data) /\ IsSpace(data[p]) THEN SkipSpace(data, p + 1) ELSE p

RECURSIVE ScanDigits(_, _, _)
ScanDigits(data, p, acc) ==
  IF p <= Len(data) /\ IsDigit(data[p])
  THEN ScanDigits(data, p + 1, acc * 10 + DigitVal(data[p]))
  ELSE [val |-> acc, pos |-> p]

\* fscanf(f, "%d ", &itmp) and fscanf(f, "%u ", &itmp): EOF when the input ends
\* before a conversion, 0 when the next characters are no number (nothing is
\* stored), otherwise 1 with the number stored in the int (the C library keeps
\* the low bits of a number that does not fit) and the white space after it
\* skipped.
ScanInt(data, p) ==
  LET q == SkipSpace(data, p)
  IN IF q > Len(data) THEN [rc |-> EOF, pos |-> q, val |-> 0]
     ELSE LET neg == data[q] = "-"
              d0 == IF data[q] \in {"-", "+"} THEN q + 1 ELSE q
              r == ScanDigits(data, d0, 0)
          IN IF r.pos = d0 THEN [rc |-> 0, pos |-> q, val |-> 0]
             ELSE [rc |-> 1, pos |-> SkipSpace(data, r.pos),
                   val |-> AsInt(IF neg THEN 0 - r.val ELSE r.val)]

\* fscanf(f, "%c", p): EOF at the end of the input (nothing is stored),
\* otherwise 1 with the next character, white space included.
ScanChar(data, p) ==
  IF p > Len(data) THEN [rc |-> EOF, pos |-> p, ch |-> NUL]
  ELSE [rc |-> 1, pos |-> p + 1, ch |-> data[p]]

\* The conversions of the 19 fields between the state and the virtual size
\* (lines 131-167), then vsize and rss, then the 4 fields after them.
SkipFmt == <<"d", "d", "d", "d", "d", "u", "u", "u", "u", "u",
             "d", "d", "d", "d", "d", "d", "u", "u", "d">>
TailFmt == <<"u", "u", "u", "u">>

\* ---- the records the file may hold
NameChars == {"a", "(", ")", " "}
Names == SeqsUpTo(NameChars, MaxNameLen)
VsizeVals == {100, IntMod \div 2 + 7, IntMod + 904}
RssVals == {3, IntMod \div 2 + 1}
PageSizes == {4096}
\* What an int that was never assigned may hold.
GarbageInts == {-1, 5}

RECURSIVE Join(_)
Join(fields) ==
  IF fields = <<>> THEN <<>> ELSE Head(fields) \o <<" ">> \o Join(Tail(fields))

PidText == <<"1", "2">>
\* The fields after the state: 19 numbers (the tty owner's group is -1), the
\* virtual size, the resident pages, 4 more numbers, and one the code never reads.
NumFields(vs, rs) ==
  <<ToDec(1), ToDec(1), ToDec(1), ToDec(0), <<"-", "1">>>> \o
  [i \in 1..14 |-> ToDec(0)] \o
  <<ToDec(vs), ToDec(rs)>> \o [i \in 1..4 |-> ToDec(0)]

Consumed(name, vs, rs) ==
  PidText \o <<" ", "(">> \o name \o <<")", " ", "S", " ">> \o Join(NumFields(vs, rs))
Record(name, vs, rs) == Consumed(name, vs, rs) \o <<"0", "\n">>
\* Where the last field the code reads starts.
LastFieldAt(name, vs, rs) == Len(Consumed(name, vs, rs)) - 1

ZeroBuf == [i \in 1..BufSize |-> NUL]
\* buf as an earlier call left it after a record whose name was n.
BufAfter(n) ==
  LET text == <<"(">> \o n \o <<")">>
  IN [i \in 1..BufSize |-> IF i <= Len(text) THEN text[i] ELSE NUL]
StaleBufs == {ZeroBuf, BufAfter(<<"a", " ">>)}

InitMem ==
  /\ \E name \in Names, vs \in VsizeVals, rs \in RssVals :
       \E cut \in 0..Len(Record(name, vs, rs)) :
         /\ f = [open |-> FALSE, data |-> SubSeq(Record(name, vs, rs), 1, cut), pos |-> 1]
         /\ rec = [name |-> name, vs |-> vs, rs |-> rs,
                   kind |-> IF cut = Len(Record(name, vs, rs)) THEN "complete"
                            ELSE IF cut < LastFieldAt(name, vs, rs) THEN "short"
                            ELSE "cut in the last field"]
  /\ buf \in StaleBufs
  /\ itmp \in GarbageInts
  /\ gm_pc = "fopen"
  /\ cbuf = 0
  /\ foundExeEnd = FALSE
  /\ ctmp = NUL
  /\ page_size = 0
  /\ nfield = 0
  /\ rss = Unset
  /\ vsize = Unset
  /\ gm_ret = Unset
  /\ overrun = FALSE
  /\ InitTitleIdle
  /\ InitConcIdle
  /\ InitExeIdle
  /\ InitIfIdle
  /\ InitCpuIdle

\* lines 102-107: fopen, which may fail, and getpagesize
GM_fopen ==
  /\ gm_pc = "fopen"
  /\ \/ /\ gm_ret' = -1
        /\ gm_pc' = "done"
        /\ UNCHANGED <<f, page_size>>
     \/ /\ f' = [f EXCEPT !.open = TRUE]
        /\ page_size' \in PageSizes
        /\ gm_pc' = "pid"
        /\ UNCHANGED gm_ret
  /\ UNCHANGED <<buf, cbuf, foundExeEnd, itmp, ctmp, nfield, rss, vsize, overrun, rec>>

\* if (fscanf(f, "%d ", &itmp) == 0) goto error;   and the same with "%u "
ScanField(fmt, next) ==
  LET r == ScanInt(f.data, f.pos)
  IN /\ f' = [f EXCEPT !.pos = r.pos]
     /\ itmp' = IF r.rc = 1 THEN r.val ELSE itmp
     /\ gm_pc' = IF r.rc = 0 THEN "error" ELSE next

\* line 112: the pid
GM_pid ==
  /\ gm_pc = "pid"
  /\ ScanField("d", "exe_open")
  /\ UNCHANGED <<buf, cbuf, foundExeEnd, ctmp, page_size, nfield, rss, vsize,
                 gm_ret, overrun, rec>>

\* lines 114-116: cbuf = buf; fscanf(f, "%c", cbuf++), the "("
GM_exe_open ==
  /\ gm_pc = "exe_open"
  /\ LET r == ScanChar(f.data, f.pos)
     IN /\ f' = [f EXCEPT !.pos = r.pos]
        /\ buf' = IF r.rc = 1 THEN [buf EXCEPT ![1] = r.ch] ELSE buf
  /\ cbuf' = 1
  /\ foundExeEnd' = FALSE
  /\ gm_pc' = "exe_loop"
  /\ UNCHANGED <<itmp, ctmp, page_size, nfield, rss, vsize, gm_ret, overrun, rec>>

\* lines 117-127: one turn of the loop that reads the name
GM_exe_loop ==
  /\ gm_pc = "exe_loop"
  /\ IF cbuf >= BufSize
     THEN /\ overrun' = TRUE
          /\ gm_pc' = "undefined"
          /\ UNCHANGED <<f, buf, cbuf, foundExeEnd>>
     ELSE LET r == ScanChar(f.data, f.pos)
              c == IF r.rc = 1 THEN r.ch ELSE buf[cbuf + 1]
          IN /\ f' = [f EXCEPT !.pos = r.pos]
             /\ IF c = ")"
                THEN /\ foundExeEnd' = TRUE
                     /\ buf' = [buf EXCEPT ![cbuf + 1] = c]
                     /\ cbuf' = cbuf + 1
                     /\ gm_pc' = "exe_loop"
                ELSE IF foundExeEnd /\ c = " "
                THEN /\ buf' = [buf EXCEPT ![cbuf + 1] = NUL]
                     /\ gm_pc' = "state"
                     /\ UNCHANGED <<cbuf, foundExeEnd>>
                ELSE /\ buf' = [buf EXCEPT ![cbuf + 1] = c]
                     /\ cbuf' = cbuf + 1
                     /\ gm_pc' = "exe_loop"
                     /\ UNCHANGED foundExeEnd
             /\ UNCHANGED overrun
  /\ UNCHANGED <<itmp, ctmp, page_size, nfield, rss, vsize, gm_ret, rec>>

\* line 129: fscanf(f, "%c ", &ctmp), the state
GM_state ==
  /\ gm_pc = "state"
  /\ LET r == ScanChar(f.data, f.pos)
     IN /\ f' = [f EXCEPT !.pos = IF r.rc = 1 THEN SkipSpace(f.data, r.pos) ELSE r.pos]
        /\ ctmp' = IF r.rc = 1 THEN r.ch ELSE ctmp
  /\ gm_pc' = "skip"
  /\ nfield' = 0
  /\ UNCHANGED <<buf, cbuf, foundExeEnd, itmp, page_size, rss, vsize, gm_ret, overrun, rec>>

\* lines 131-167: the 19 fields from the parent process to the start time
GM_skip ==
  /\ gm_pc = "skip"
  /\ nfield < Len(SkipFmt)
  /\ ScanField(SkipFmt[nfield + 1], IF nfield + 1 = Len(SkipFmt) THEN "vsize" ELSE "skip")
  /\ nfield' = nfield + 1
  /\ UNCHANGED <<buf, cbuf, foundExeEnd, ctmp, page_size, rss, vsize, gm_ret, overrun, rec>>

\* lines 170-171: the virtual size
GM_vsize ==
  /\ gm_pc = "vsize"
  /\ ScanField("u", "rss")
  /\ vsize' = IF gm_pc' = "error" THEN vsize ELSE AsSize(itmp')
  /\ UNCHANGED <<buf, cbuf, foundExeEnd, ctmp, page_size, nfield, rss, gm_ret, overrun, rec>>

\* lines 174-175: the resident set size
GM_rss ==
  /\ gm_pc = "rss"
  /\ ScanField("u", "tail")
  /\ rss' = IF gm_pc' = "error" THEN rss ELSE MulSize(itmp', page_size)
  /\ nfield' = 0
  /\ UNCHANGED <<buf, cbuf, foundExeEnd, ctmp, page_size, vsize, gm_ret, overrun, rec>>

\* lines 178-184: rlim, start and end of text, start of stack
GM_tail ==
  /\ gm_pc = "tail"
  /\ nfield < Len(TailFmt)
  /\ ScanField(TailFmt[nfield + 1], IF nfield + 1 = Len(TailFmt) THEN "close" ELSE "tail")
  /\ nfield' = nfield + 1
  /\ UNCHANGED <<buf, cbuf, foundExeEnd, ctmp, page_size, rss, vsize, gm_ret, overrun, rec>>

\* lines 186-188: fclose(f); return 0;
GM_return ==
  /\ gm_pc = "close"
  /\ f' = [f EXCEPT !.open = FALSE]
  /\ gm_ret' = 0
  /\ gm_pc' = "done"
  /\ UNCHANGED <<buf, cbuf, foundExeEnd, itmp, ctmp, page_size, nfield, rss, vsize, overrun, rec>>

\* lines 190-192: error: fclose(f); return -1;
GM_error ==
  /\ gm_pc = "error"
  /\ f' = [f EXCEPT !.open = FALSE]
  /\ gm_ret' = -1
  /\ gm_pc' = "done"
  /\ UNCHANGED <<buf, cbuf, foundExeEnd, itmp, ctmp, page_size, nfield, rss, vsize, overrun, rec>>

notMem == <<titleVars, concVars, exeVars, ifVars, cpuVars>>

\* int Platform::GetMemory(size_t *rss, size_t *vsize), statement by statement
NextMem ==
  \/ GM_fopen /\ UNCHANGED notMem
  \/ GM_pid /\ UNCHANGED notMem
  \/ GM_exe_open /\ UNCHANGED notMem
  \/ GM_exe_loop /\ UNCHANGED notMem
  \/ GM_state /\ UNCHANGED notMem
  \/ GM_skip /\ UNCHANGED notMem
  \/ GM_vsize /\ UNCHANGED notMem
  \/ GM_rss /\ UNCHANGED notMem
  \/ GM_tail /\ UNCHANGED notMem
  \/ GM_return /\ UNCHANGED notMem
  \/ GM_error /\ UNCHANGED notMem

SpecMem == InitMem /\ [][NextMem]_vars

\* The position of the state character of an uncut record.
StateAt(name) == Len(PidText) + 3 + Len(name) + 2
PlainName(name) == \A i \in 1..Len(name) : name[i] \notin {")", " "}

\* C2: for a record that lacks fields the code reads, GetMemory ends with the
\* error result -1 and never accesses memory outside buf.
C2_ShortRecordIsError ==
  (rec.kind = "short" /\ gm_pc \in {"done", "undefined"}) =>
    /\ gm_ret = -1
    /\ ~overrun

\* C7: the name scan ends at the last ")" of the name field: after it the file
\* is positioned at the state character and buf holds "(" name ")", whatever
\* ")" and ") " the name contains.
C7_NameEndsAtLastParen ==
  (rec.kind = "complete" /\ gm_pc = "state") =>
    /\ f.pos = StateAt(rec.name)
    /\ CStr(buf) = <<"(">> \o rec.name \o <<")">>

\* C9: for a complete record (here even with a name free of ")" and " "),
\* GetMemory returns 0 with *rss the record's resident pages times the page
\* size and *vsize the record's virtual size.
C9_BytesFromFields ==
  (rec.kind = "complete" /\ PlainName(rec.name) /\ gm_pc = "done"
     /\ page_size # 0) =>
    /\ gm_ret = 0
    /\ rss = rec.rs * page_size
    /\ vsize = rec.vs

\* ---------------------------------------- GetExecutablePath (lines 196-201)
\* The value a size_t holds after it is assigned n.
ToSize(n) == n % SizeMod

\* readlink(path, buf, bufsiz): -1 on failure (the kernel takes bufsiz as an
\* int and rejects one that is not positive), otherwise the number of
\* characters placed in buf, at most bufsiz, with no NUL appended.
Readlink(l, bufsiz) ==
  IF l.fails \/ AsInt(bufsiz) <= 0 THEN -1 ELSE Min(bufsiz, Len(l.target))

InitExe ==
  /\ capacity \in 0..MaxCapacity
  /\ size = capacity
  /\ buffer = [i \in 1..capacity |-> "?"]
  /\ \E n \in 0..MaxTarget, fails \in BOOLEAN :
       link = [fails |-> fails, target |-> [i \in 1..n |-> "x"]]
  /\ ge_pc = "readlink"
  /\ ge_r = 0
  /\ ge_nul = Unset
  /\ ge_ret = Unset
  /\ InitTitleIdle
  /\ InitConcIdle
  /\ InitMemIdle
  /\ InitIfIdle
  /\ InitCpuIdle

\* line 197: *size = readlink("/proc/self/exe", buffer, *size - 1);
GE_readlink ==
  /\ ge_pc = "readlink"
  /\ LET bufsiz == ToSize(size - 1)
         r == Readlink(link, bufsiz)
     IN /\ ge_r' = r
        /\ size' = ToSize(r)
        /\ buffer' = [i \in 1..Len(buffer) |-> IF i <= r THEN link.target[i] ELSE buffer[i]]
  /\ ge_pc' = "check"
  /\ UNCHANGED <<link, ge_nul, ge_ret, capacity>>

\* lines 198-200: if (*size <= 0) return -1; buffer[*size] = '\0'; return 0;
GE_check ==
  /\ ge_pc = "check"
  /\ IF size <= 0
     THEN /\ ge_ret' = -1
          /\ UNCHANGED <<buffer, ge_nul>>
     ELSE /\ ge_nul' = size
          /\ buffer' = IF size < Len(buffer) THEN [buffer EXCEPT ![size + 1] = NUL] ELSE buffer
          /\ ge_ret' = 0
  /\ ge_pc' = "done"
  /\ UNCHANGED <<link, size, ge_r, capacity>>

notExe == <<titleVars, concVars, memVars, ifVars, cpuVars>>

NextExe ==
  \/ GE_readlink /\ UNCHANGED notExe
  \/ GE_check /\ UNCHANGED notExe

SpecExe == InitExe /\ [][NextExe]_vars

\* C1: when readlink fails (-1) or yields an empty target (0),
\* GetExecutablePath returns -1 and stores no NUL outside the caller's buffer.
C1_ReadlinkFailureIsReported ==
  (ge_pc = "done" /\ ge_r \in {-1, 0}) =>
    /\ ge_ret = -1
    /\ (ge_nul = Unset \/ ge_nul < capacity)

\* ------------------------------------ GetInterfaceAddresses (lines 333-404)
IfNames == {"lo", "eth0"}
SockAddrs ==
  {[family |-> "AF_INET", host |-> h] : h \in {1, 2}} \cup
  {[family |-> "AF_INET6", host |-> 1], [family |-> "PF_PACKET", host |-> 1],
   [family |-> "AF_UNIX", host |-> 1]}
\* ifa_addr == NULL
NullAddr == [family |-> "NULL", host |-> 0]
\* One struct ifaddrs; a loopback interface is the one named lo.
IfEntries ==
  {[name |-> n, up |-> u, running |-> r, loopback |-> (n = "lo"), addr |-> a] :
     n \in IfNames, u \in BOOLEAN, r \in BOOLEAN, a \in SockAddrs \cup {NullAddr}}

\* inet_ntop: the text form of the family for that address.
InetNtop(a) ==
  [form |-> IF a.family = "AF_INET" THEN "dotted-quad" ELSE "colon-hex", of |-> a.host]

InitIf ==
  /\ \E fails \in BOOLEAN, list \in SeqsUpTo(IfEntries, MaxIfs) :
       addrs = [fails |-> fails, list |-> IF fails THEN <<>> ELSE list]
  /\ ent = 0
  /\ ret = <<>>
  /\ ia_pc = "getifaddrs"
  /\ ia_result = "none"
  /\ InitTitleIdle
  /\ InitConcIdle
  /\ InitMemIdle
  /\ InitExeIdle
  /\ InitCpuIdle

\* lines 346-350: getifaddrs, or the exception; ret = Object::New()
IA_getifaddrs ==
  /\ ia_pc = "getifaddrs"
  /\ IF addrs.fails
     THEN /\ ia_result' = "exception"
          /\ ia_pc' = "done"
          /\ UNCHANGED <<ent, ret>>
     ELSE /\ ret' = <<>>
          /\ ent' = 1
          /\ ia_pc' = "loop"
          /\ UNCHANGED ia_result
  /\ UNCHANGED addrs

\* A filter that accepts an interface that is up but not running.
Skips_upOnly(e) ==
  \/ ~e.up
  \/ e.addr = NullAddr
  \/ e.addr.family = "PF_PACKET"

\* lines 354-367: the three "continue" tests
Skips(e) ==
  \/ ~(e.up /\ e.running)
  \/ e.addr = NullAddr
  \/ e.addr.family = "PF_PACKET"

\* lines 377-394: the object built for an entry
AddressObject(e) ==
  [address |-> IF e.addr.family \in {"AF_INET", "AF_INET6"} THEN InetNtop(e.addr)
               ELSE [form |-> "<unknown sa family>", of |-> 0],
   family |-> IF e.addr.family = "AF_INET6" THEN "IPv6"
              ELSE IF e.addr.family = "AF_INET" THEN "IPv4" ELSE "<unknown>",
   internal |-> e.loopback]

\* lines 369-396: ret[name] gains the object, the array created when absent
Appended(r, name, o) ==
  IF name \in DOMAIN r
  THEN [r EXCEPT ![name] = Append(r[name], o)]
  ELSE [n \in DOMAIN r \cup {name} |-> IF n = name THEN <<o>> ELSE r[n]]

\* lines 352-398: one turn of the loop over the list
IA_loop ==
  /\ ia_pc = "loop"
  /\ ent <= Len(addrs.list)
  /\ LET e == addrs.list[ent]
     IN ret' = IF Skips(e) THEN ret ELSE Appended(ret, e.name, AddressObject(e))
  /\ ent' = ent + 1
  /\ UNCHANGED <<addrs, ia_pc, ia_result>>

\* lines 400-402: freeifaddrs(addrs); return scope.Close(ret);
IA_return ==
  /\ ia_pc = "loop"
  /\ ent > Len(addrs.list)
  /\ ia_result' = "mapping"
  /\ ia_pc' = "done"
  /\ UNCHANGED <<addrs, ent, ret>>

notIf == <<titleVars, concVars, memVars, exeVars, cpuVars>>

NextIf ==
  \/ IA_getifaddrs /\ UNCHANGED notIf
  \/ IA_loop /\ UNCHANGED notIf
  \/ IA_return /\ UNCHANGED notIf

SpecIf == InitIf /\ [][NextIf]_vars

\* The entries of the OS list that belong to interface n and are up, running,
\* have an address record and are not of the packet family, in list order.
Surfaced(n) ==
  SelectSeq(addrs.list,
            LAMBDA e : /\ e.name = n
                       /\ e.up
                       /\ e.running
                       /\ e.addr # NullAddr
                       /\ e.addr.family # "PF_PACKET")

\* C8: the returned mapping holds, under each interface name, exactly the
\* entries that are up and running, have an address record and are not of the
\* packet family, in discovery order, and nothing else.
C8_OnlyUpRunningNonPacket ==
  ia_result = "mapping" =>
    /\ DOMAIN ret = {n \in IfNames : Surfaced(n) # <<>>}
    /\ \A n \in DOMAIN ret :
         /\ Len(ret[n]) = Len(Surfaced(n))
         /\ \A k \in 1..Len(ret[n]) :
              /\ ret[n][k].internal = Surfaced(n)[k].loopback
              /\ ret[n][k].address =
                   (IF Surfaced(n)[k].addr.family = "AF_INET"
                    THEN [form |-> "dotted-quad", of |-> Surfaced(n)[k].addr.host]
                    ELSE IF Surfaced(n)[k].addr.family = "AF_INET6"
                    THEN [form |-> "colon-hex", of |-> Surfaced(n)[k].addr.host]
                    ELSE [form |-> "<unknown sa family>", of |-> 0])
              /\ ret[n][k].family =
                   (IF Surfaced(n)[k].addr.family = "AF_INET" THEN "IPv4"
                    ELSE IF Surfaced(n)[k].addr.family = "AF_INET6" THEN "IPv6"
                    ELSE "<unknown>")

\* Both kinds of excluded entry and two surfaced addresses of one interface.
C8_Witness_MixedList ==
  /\ ia_result = "mapping"
  /\ Len(addrs.list) = 2
  /\ \E k \in 1..2 : ~addrs.list[k].running /\ addrs.list[k].up
  /\ \E k \in 1..2 : addrs.list[k].addr # NullAddr /\ addrs.list[k].up
                       /\ addrs.list[k].running /\ addrs.list[k].name = "eth0"
                       /\ addrs.list[k].addr.family = "AF_INET"
  /\ DOMAIN ret = {"eth0"}

\* ------------------------------------------------ GetCPUInfo (lines 203-277)
\* What char model[512] holds until it is assigned (cpuspeed, a number, holds
\* Unset until then).
Uninitialised == "(uninitialised)"
\* The slot of an array that was never Set.
Hole == [model |-> "(undefined)", speed |-> Unset, times |-> <<0, 0, 0, 0, 0>>]
IsHole(o) == o.model = "(undefined)"

\* ---- /proc/cpuinfo: one block of lines per core
OtherLine == [kind |-> "other", text |-> "", mhz |-> 0]
ModelLine == [kind |-> "model name", text |-> "Xeon", mhz |-> 0]
MhzLine(v) == [kind |-> "cpu MHz", text |-> "", mhz |-> v]
MhzVals == {2400, 1800}
Block(hasModel, hasMhz, v) ==
  <<OtherLine>> \o (IF hasModel THEN <<ModelLine>> ELSE <<>>)
               \o (IF hasMhz THEN <<MhzLine(v)>> ELSE <<>>)
RECURSIVE Blocks(_, _, _)
Blocks(hasModel, hasMhz, vs) ==
  IF vs = <<>> THEN <<>>
  ELSE Block(hasModel, hasMhz, Head(vs)) \o Blocks(hasModel, hasMhz, Tail(vs))
CpuinfoFiles ==
  {Blocks(m, h, vs) : m \in BOOLEAN, h \in BOOLEAN, vs \in SeqsUpTo(MhzVals, MaxCores)}

\* ---- /proc/stat: the aggregate line, one line per core, then other lines;
\* the columns are user, nice, system, idle, iowait, irq
CoreLine(k) == [kind |-> "cpuN", cols |-> <<10 * k, k, 20 * k, 30 * k, 7, 2 * k>>]
AggLine == [kind |-> "cpu ", cols |-> <<0, 0, 0, 0, 0, 0>>]
IntrLine == [kind |-> "intr", cols |-> <<0, 0, 0, 0, 0, 0>>]
StatFiles == {<<AggLine>> \o [k \in 1..m |-> CoreLine(k)] \o <<IntrLine>> : m \in 0..MaxCores}

\* ---- cpuinfo_max_freq of a core: missing, empty or one line in kHz
SpeedFiles ==
  {[exists |-> FALSE, lines |-> <<>>], [exists |-> TRUE, lines |-> <<>>],
   [exists |-> TRUE, lines |-> <<3000000>>]}

InitCpu ==
  /\ \E ok \in BOOLEAN, lines \in CpuinfoFiles :
       fpModel = [ok |-> ok, lines |-> IF ok THEN lines ELSE <<>>]
  /\ \E ok \in BOOLEAN, lines \in StatFiles :
       fpStat = [ok |-> ok, lines |-> IF ok THEN lines ELSE <<>>]
  /\ fpSpeed \in [1..MaxCores -> SpeedFiles]
  /\ ticks = 100
  /\ numcpus = 0
  /\ ci_i = 0
  /\ cpuspeed = Unset
  /\ model = Uninitialised
  /\ ln = 1
  /\ cpus = <<>>
  /\ ci_pc = "cpuinfo"
  /\ ci_ret = Unset
  /\ InitTitleIdle
  /\ InitConcIdle
  /\ InitMemIdle
  /\ InitExeIdle
  /\ InitIfIdle

\* lines 217-230: one line of /proc/cpuinfo
CI_cpuinfo_line ==
  /\ ci_pc = "cpuinfo"
  /\ fpModel.ok
  /\ ln <= Len(fpModel.lines)
  /\ LET line == fpModel.lines[ln]
     IN IF line.kind = "model name"
        THEN /\ numcpus' = numcpus + 1
             /\ model' = IF numcpus' = 1 THEN line.text ELSE model
             /\ UNCHANGED cpuspeed
        ELSE IF line.kind = "cpu MHz"
        THEN /\ cpuspeed' = IF numcpus = 1 THEN line.mhz ELSE cpuspeed
             /\ UNCHANGED <<numcpus, model>>
        ELSE UNCHANGED <<numcpus, model, cpuspeed>>
  /\ ln' = ln + 1
  /\ UNCHANGED <<fpModel, fpStat, fpSpeed, ticks, ci_i, cpus, ci_pc, ci_ret>>

\* Array::New(n): n slots, none of them set.
ArrayNew(n) == [k \in 1..n |-> Hole]
\* a->Set(i, v): the array grows to hold index i.
ArraySet(a, i, v) ==
  [k \in 1..(IF i + 1 > Len(a) THEN i + 1 ELSE Len(a)) |->
     IF k = i + 1 THEN v ELSE IF k <= Len(a) THEN a[k] ELSE Hole]

\* lines 216, 231-234: the end of /proc/cpuinfo (or no file); *cpus = Array::New(numcpus)
CI_alloc ==
  /\ ci_pc = "cpuinfo"
  /\ ~fpModel.ok \/ ln > Len(fpModel.lines)
  /\ cpus' = ArrayNew(numcpus)
  /\ ln' = 1
  /\ ci_pc' = "stat"
  /\ UNCHANGED <<fpModel, fpStat, fpSpeed, ticks, numcpus, ci_i, cpuspeed, model, ci_ret>>

\* lines 249-257: cpuspeed after the core's frequency file has been tried
SpeedAfterFile(file, speed) ==
  IF file.exists /\ file.lines # <<>> THEN Head(file.lines) \div 1000 ELSE speed

\* lines 237-272: one line of /proc/stat that starts with "cpu"
CI_stat_line ==
  /\ ci_pc = "stat"
  /\ fpStat.ok
  /\ ln <= Len(fpStat.lines)
  /\ fpStat.lines[ln].kind \in {"cpu ", "cpuN"}
  /\ LET line == fpStat.lines[ln]
         multiplier == 1000 \div ticks
     IN IF line.kind = "cpu "
        THEN UNCHANGED <<cpuspeed, cpus, ci_i>>
        ELSE /\ cpuspeed' = SpeedAfterFile(fpSpeed[ci_i + 1], cpuspeed)
             /\ cpus' = ArraySet(cpus, ci_i,
                          [model |-> model, speed |-> cpuspeed',
                           times |-> <<line.cols[1] * multiplier, line.cols[2] * multiplier,
                                       line.cols[3] * multiplier, line.cols[4] * multiplier,
                                       line.cols[6] * multiplier>>])
             /\ ci_i' = ci_i + 1
  /\ ln' = ln + 1
  /\ UNCHANGED <<fpModel, fpStat, fpSpeed, ticks, numcpus, model, ci_pc, ci_ret>>

\* lines 236-241, 273-276: no file, its end, or a line that does not start
\* with "cpu"; return 0
CI_return ==
  /\ ci_pc = "stat"
  /\ IF fpStat.ok /\ ln <= Len(fpStat.lines)
     THEN fpStat.lines[ln].kind \notin {"cpu ", "cpuN"}
     ELSE TRUE
  /\ ci_ret' = 0
  /\ ci_pc' = "done"
  /\ UNCHANGED <<fpModel, fpStat, fpSpeed, ticks, numcpus, ci_i, cpuspeed, model, ln, cpus>>

notCpu == <<titleVars, concVars, memVars, exeVars, ifVars>>

NextCpu ==
  \/ CI_cpuinfo_line /\ UNCHANGED notCpu
  \/ CI_alloc /\ UNCHANGED notCpu
  \/ CI_stat_line /\ UNCHANGED notCpu
  \/ CI_return /\ UNCHANGED notCpu

SpecCpu == InitCpu /\ [][NextCpu]_vars

\* The speed of the first "cpu MHz" line of the descriptor source.
FirstMhz(lines) ==
  lines[CHOOSE k \in 1..Len(lines) :
          /\ lines[k].kind = "cpu MHz"
          /\ \A j \in 1..(k - 1) : lines[j].kind # "cpu MHz"].mhz

\* C3: with both sources readable and a descriptor that names a model and a
\* speed for every core, a core whose frequency file holds a value reports
\* that value / 1000 and a core whose frequency file is absent reports the
\* speed of the first "cpu MHz" line, whatever earlier cores had.
C3_AbsentFileUsesFallback ==
  (/\ ci_pc = "done"
   /\ fpModel.ok
   /\ fpStat.ok
   /\ \E k \in 1..Len(fpModel.lines) : fpModel.lines[k].kind = "cpu MHz"
   /\ \E k \in 1..Len(fpModel.lines) : fpModel.lines[k].kind = "model name") =>
    \A k \in 1..Len(cpus) :
      (~IsHole(cpus[k]) /\ k <= MaxCores) =>
        /\ (~fpSpeed[k].exists => cpus[k].speed = FirstMhz(fpModel.lines))
        /\ (fpSpeed[k].exists /\ fpSpeed[k].lines # <<>> =>
              cpus[k].speed = Head(fpSpeed[k].lines) \div 1000)

\* C4: when /proc/cpuinfo or /proc/stat cannot be opened, GetCPUInfo returns 0
\* and no core has been added to the result.
C4_UnreadableSourceGivesNoCores ==
  (ci_pc = "done" /\ (~fpModel.ok \/ ~fpStat.ok)) =>
    /\ ci_ret = 0
    /\ \A k \in 1..Len(cpus) : IsHole(cpus[k])

=============================================================================
